---- MODULE Spec2Model ----
(***************************************************************************)
(* ClippingPlanesCollection (Source/Scene/ClippingPlanesCollection.js).    *)
(*                                                                         *)
(* JavaScript objects are modelled as a heap: arrays of planes, Plane      *)
(* objects, Matrix4 objects and Color objects live in functions from       *)
(* object identities to their current contents, and an instance holds      *)
(* identities, so that two fields holding the same object are seen to      *)
(* alias.  Geometry is one-dimensional (the x axis): a Matrix4 is the      *)
(* map x |-> s*x + t with s in {1,-1}, a Plane is a normal in {1,-1} and a *)
(* signed distance, a bounding volume is a sphere (centre, radius).        *)
(***************************************************************************)
EXTENDS Integers, Sequences, FiniteSets, TLC

\* ------------------------------------------------------------------ bounds

\* Instances that may exist at once.
MaxInst == 2
\* Longest planes array.
MaxLen == 3
\* Writes the caller makes to objects it holds, per behaviour.
MaxEdits == 1

\* ------------------------------------------------------- JavaScript values

\* An optional value: undefined, or a defined value.
Undefined == {}
Defined(x) == {x}
defined(m) == m # Undefined
Val(m) == CHOOSE x \in m : TRUE
defaultValue(a, b) == IF defined(a) THEN Val(a) ELSE b

\* ------------------------------------------------------ Core collaborators

INSIDE == "INSIDE"
OUTSIDE == "OUTSIDE"
INTERSECTING == "INTERSECTING"
Intersect == {INSIDE, OUTSIDE, INTERSECTING}

\* Matrix4.IDENTITY, and the matrices callers pass: x |-> s*x + t.
IDENTITY == [s |-> 1, t |-> 0]
MatrixValues == {IDENTITY, [s |-> 1, t |-> 2], [s |-> -1, t |-> 5]}

\* Matrix4.multiply(left, right): the map left o right.
Matrix4_multiply(left, right) ==
    [s |-> left.s * right.s, t |-> left.s * right.t + left.t]

\* Plane.transform(plane, transform): the image of the half-space
\* normal*x + distance >= 0 under the transform.
Plane_transform(plane, transform) ==
    [normal   |-> transform.s * plane.normal,
     distance |-> plane.distance - transform.s * plane.normal * transform.t]

\* boundingVolume.intersectPlane(plane) of a bounding sphere.
intersectPlane(boundingVolume, plane) ==
    LET distanceToPlane == plane.normal * boundingVolume.center + plane.distance
    IN  IF distanceToPlane < -boundingVolume.radius THEN OUTSIDE
        ELSE IF distanceToPlane < boundingVolume.radius THEN INTERSECTING
        ELSE INSIDE

\* Colors.
WHITE == "WHITE"
RED == "RED"

\* The Plane objects the caller made, as constructed: the slab
\* 0 <= x <= 5 and a third half-space x >= 3.
InitialPlanes ==
    << [normal |-> 1, distance |-> 0],
       [normal |-> -1, distance |-> 5],
       [normal |-> 1, distance |-> -3] >>
PlaneIds == DOMAIN InitialPlanes
\* Values the caller writes into a Plane object.
PlaneValues ==
    {InitialPlanes[p] : p \in PlaneIds} \cup {[normal |-> -1, distance |-> 0]}

\* Bounding spheres of radius 1 along the x axis.
BoundingVolumes == {[center |-> c, radius |-> 1] : c \in {-3, 0, 2, 5, 8}}

\* ----------------------------------------- getTestIntersectionFunction

\* The two predicates the wrong way round.
getTestIntersectionFunction_Swapped(combineClippingRegions) ==
    IF combineClippingRegions
    THEN [value \in Intersect |-> value = OUTSIDE]
    ELSE [value \in Intersect |-> value = INSIDE]

\* The predicate, as the function from a verdict to whether it is accepted.
getTestIntersectionFunction(combineClippingRegions) ==
    IF combineClippingRegions
    THEN [value \in Intersect |-> value = INSIDE]
    ELSE [value \in Intersect |-> value = OUTSIDE]

\* ------------------------------------------------------------------ state

VARIABLES
    planeObjs,  \* Plane object -> [normal, distance]
    arrays,     \* array object -> the sequence of Plane objects it holds
    matrices,   \* Matrix4 object -> its value
    colors,     \* Color object -> its value
    insts,      \* instance slot -> the fields of a ClippingPlanesCollection
    edits,      \* writes made so far by the caller to objects it holds
    outcome     \* the last call: what was called, on what, and what it gave

vars == <<planeObjs, arrays, matrices, colors, insts, edits, outcome>>

InstIds == 1..MaxInst

\* Objects the caller made and passes as options (object 0 of each kind),
\* and objects the collection allocates itself.  The Matrix4.clone(IDENTITY)
\* and Color.clone(WHITE) of the constructor of instance i are object i.
\* An array the code allocates ([] in the constructor, Array.from in clone)
\* is stored in the planes field of one instance and nowhere else, and
\* replaces what that field held, so the array instance i allocated last
\* is object i.
ArgArrays == {0}
ArrayIds == ArgArrays \cup InstIds
ArgMatrices == {0}
MatrixIds == ArgMatrices \cup InstIds
ArgColors == {0}
ColorIds == ArgColors \cup InstIds

\* A slot no constructor has run for.
NoInstance ==
    [alive |-> FALSE, planes |-> 0, enabled |-> FALSE, modelMatrix |-> 0,
     edgeColor |-> 0, edgeWidth |-> 0,
     _combineClippingRegions |-> Undefined, _testIntersection |-> Undefined]

Alive == {i \in InstIds : insts[i].alive}

\* The options objects callers pass to the constructor: each of planes,
\* modelMatrix and combineClippingRegions given or not, and the remaining
\* three either all left out or all given.
CtorOptions ==
    {[planes |-> p, enabled |-> st.enabled, modelMatrix |-> m,
      combineClippingRegions |-> c, edgeColor |-> st.edgeColor,
      edgeWidth |-> st.edgeWidth] :
        p \in {Undefined} \cup {Defined(a) : a \in ArgArrays},
        m \in {Undefined} \cup {Defined(x) : x \in ArgMatrices},
        c \in {Undefined, Defined(TRUE), Defined(FALSE)},
        st \in {[enabled |-> Undefined, edgeColor |-> Undefined,
                 edgeWidth |-> Undefined],
                [enabled |-> Defined(FALSE), edgeColor |-> Defined(0),
                 edgeWidth |-> Defined(2)]}}

NoOutcome ==
    [op |-> "none", self |-> 0, result |-> 0, value |-> "none",
     threw |-> FALSE, array |-> << >>, supplied |-> FALSE,
     boundingVolume |-> [center |-> 0, radius |-> 0],
     transform |-> Undefined, object |-> 0, before |-> Undefined]

\* ------------------------------------------ combineClippingRegions setter

\* The setter with the predicate derived at the first assignment only.
set_combineClippingRegions_DerivedOnce(self, value) ==
    IF self._combineClippingRegions # Defined(value)
    THEN [self EXCEPT !._combineClippingRegions = Defined(value),
                      !._testIntersection =
                          IF defined(@) THEN @
                          ELSE Defined(getTestIntersectionFunction(value))]
    ELSE self

\* The setter, on the fields of one instance.
set_combineClippingRegions(self, value) ==
    IF self._combineClippingRegions # Defined(value)
    THEN [self EXCEPT !._combineClippingRegions = Defined(value),
                      !._testIntersection =
                          Defined(getTestIntersectionFunction(value))]
    ELSE self

\* The getter.
get_combineClippingRegions(self) == Val(self._combineClippingRegions)

\* --------------------------------------------------------- constructor

\* The fields of the instance the constructor builds in slot i; own is
\* the array object its [] is.
ClippingPlanesCollection(i, options, own) ==
    set_combineClippingRegions(
        [alive |-> TRUE,
         planes |-> defaultValue(options.planes, own),
         enabled |-> defaultValue(options.enabled, TRUE),
         modelMatrix |-> defaultValue(options.modelMatrix, i),
         edgeColor |-> defaultValue(options.edgeColor, i),
         edgeWidth |-> defaultValue(options.edgeWidth, 0),
         _combineClippingRegions |-> Undefined,
         _testIntersection |-> Undefined],
        defaultValue(options.combineClippingRegions, TRUE))

HeldArrays(ins) == {ins[i].planes : i \in {j \in InstIds : ins[j].alive}}

\* ------------------------------------ computeIntersectionWithBoundingVolume

\* this.planes as the sequence of the planes' current values.
PlanesOf(self) ==
    [k \in 1..Len(arrays[self.planes]) |-> planeObjs[arrays[self.planes][k]]]

\* The initial value without the test of length.
initialIntersection_NoLength(combineClippingRegions, length) ==
    IF combineClippingRegions THEN OUTSIDE ELSE INSIDE

\* The value of intersection before the loop.
initialIntersection(combineClippingRegions, length) ==
    IF combineClippingRegions /\ length > 0 THEN OUTSIDE ELSE INSIDE

\* The loop body returning at the first INTERSECTING verdict.
loopBody_ReturnIntersecting(state, value, testIntersection) ==
    IF state.returned THEN state
    ELSE IF value = INTERSECTING \/ testIntersection[value]
         THEN [returned |-> TRUE, intersection |-> value]
    ELSE state

\* The loop body storing every verdict it does not return.
loopBody_LastWins(state, value, testIntersection) ==
    IF state.returned THEN state
    ELSE IF testIntersection[value]
         THEN [returned |-> TRUE, intersection |-> value]
    ELSE [returned |-> FALSE, intersection |-> value]

\* The loop body that never stores INTERSECTING.
loopBody_NoIntersecting(state, value, testIntersection) ==
    IF state.returned THEN state
    ELSE IF value # INTERSECTING /\ testIntersection[value]
         THEN [returned |-> TRUE, intersection |-> value]
    ELSE state

\* One pass of the loop body on the verdict of one plane.  The loop state
\* is whether the function has returned, and the value returned or the
\* value of intersection so far.
loopBody(state, value, testIntersection) ==
    IF state.returned THEN state
    ELSE IF value = INTERSECTING
         THEN [returned |-> FALSE, intersection |-> value]
    ELSE IF testIntersection[value]
         THEN [returned |-> TRUE, intersection |-> value]
    ELSE state

RECURSIVE loop(_, _, _, _, _, _)
loop(planes, transform, boundingVolume, testIntersection, i, state) ==
    IF i > Len(planes) THEN state
    ELSE LET scratchPlane == Plane_transform(planes[i], transform)
             value == intersectPlane(boundingVolume, scratchPlane)
         IN  loop(planes, transform, boundingVolume, testIntersection, i + 1,
                  loopBody(state, value, testIntersection))

\* The function on given planes, modelMatrix, flag and cached predicate.
classify(planes, modelMatrix, flag, testIntersection, boundingVolume, parentTransform) ==
    LET length == Len(planes)
        transform ==
            IF defined(parentTransform)
            THEN Matrix4_multiply(modelMatrix, Val(parentTransform))
            ELSE modelMatrix
        intersection == initialIntersection(flag, length)
    IN  loop(planes, transform, boundingVolume, testIntersection, 1,
             [returned |-> FALSE, intersection |-> intersection]).intersection

computeIntersectionWithBoundingVolume(self, boundingVolume, parentTransform) ==
    classify(PlanesOf(self), matrices[self.modelMatrix],
             get_combineClippingRegions(self), Val(self._testIntersection),
             boundingVolume, parentTransform)

\* ------------------------------------------------- transformAndPackPlanes

\* new Array(length): every slot undefined.
NewArray(length) == [k \in 1..length |-> Undefined]

\* array[i] of a JavaScript array: undefined past its end.
At(array, i) == IF i \in DOMAIN array THEN array[i] ELSE Undefined

\* The loop from index i on.  Writing packedPlane.w when packedPlane is
\* undefined throws a TypeError, and the call ends there.
RECURSIVE packLoop(_, _, _, _)
packLoop(planes, transform, array, i) ==
    IF i > Len(planes) THEN [threw |-> FALSE, array |-> array]
    ELSE LET scratchPlane == Plane_transform(planes[i], transform)
             packedPlane == At(array, i)
         IN  IF ~defined(packedPlane)
             THEN [threw |-> TRUE, array |-> array]
             ELSE packLoop(planes, transform,
                           [array EXCEPT ![i] =
                               Defined([x |-> scratchPlane.normal,
                                        w |-> scratchPlane.distance])],
                           i + 1)

\* The call: whether it threw, and the array it worked on as it left it.
transformAndPackPlanes(self, viewMatrix, array) ==
    LET planes == PlanesOf(self)
        length == Len(planes)
        arr == IF ~defined(array) THEN NewArray(length) ELSE Val(array)
        transform == Matrix4_multiply(viewMatrix, matrices[self.modelMatrix])
    IN  packLoop(planes, transform, arr, 1)

\* ------------------------------------------------------------------ clone

\* The heap after this.clone(result), for instances in slots self and
\* result of ins (result already constructed).
clone(self, result, ins, arr, mat, col) ==
    LET fresh == result
        r1 == [ins[result] EXCEPT !.planes = fresh,
                                  !.enabled = ins[self].enabled]
        r2 == set_combineClippingRegions(r1, get_combineClippingRegions(ins[self]))
        r3 == [r2 EXCEPT !.edgeWidth = ins[self].edgeWidth]
        ins2 == [ins EXCEPT ![result] = r3]
    IN  [insts    |-> ins2,
         arrays   |-> [arr EXCEPT ![fresh] = arr[ins[self].planes]],
         matrices |-> [mat EXCEPT ![r1.modelMatrix] = mat[ins[self].modelMatrix]],
         colors   |-> [col EXCEPT ![r1.edgeColor] = col[ins[self].edgeColor]]]

\* ---------------------------------------------------------------- actions

\* new ClippingPlanesCollection(options), into the next free slot.
New(options) ==
    LET i == Cardinality(Alive) + 1
        own == i
    IN  /\ i \in InstIds
        /\ insts' = [insts EXCEPT ![i] = ClippingPlanesCollection(i, options, own)]
        /\ arrays' = [arrays EXCEPT ![own] = << >>]
        /\ matrices' = [matrices EXCEPT ![i] = IDENTITY]
        /\ colors' = [colors EXCEPT ![i] = WHITE]
        /\ outcome' = [NoOutcome EXCEPT !.op = "new", !.result = i]
        /\ UNCHANGED <<planeObjs, edits>>

\* collection.combineClippingRegions = value
SetCombineClippingRegions(i, value) ==
    /\ i \in Alive
    /\ insts' = [insts EXCEPT ![i] = set_combineClippingRegions(@, value)]
    /\ outcome' = [NoOutcome EXCEPT !.op = "setCombine", !.self = i,
                        !.before = insts[i]._combineClippingRegions]
    /\ UNCHANGED <<planeObjs, arrays, matrices, colors, edits>>

\* self.clone(target)
CloneInto(self, target) ==
    /\ self \in Alive /\ target \in Alive
    /\ LET h == clone(self, target, insts, arrays, matrices, colors)
       IN  /\ insts' = h.insts /\ arrays' = h.arrays
           /\ matrices' = h.matrices /\ colors' = h.colors
    /\ outcome' = [NoOutcome EXCEPT !.op = "clone", !.self = self,
                                    !.result = target, !.supplied = TRUE]
    /\ UNCHANGED <<planeObjs, edits>>

\* self.clone(): the result is a new ClippingPlanesCollection().
CloneNew(self) ==
    LET i == Cardinality(Alive) + 1
        own == i
        noOptions == [planes |-> Undefined, enabled |-> Undefined,
                      modelMatrix |-> Undefined,
                      combineClippingRegions |-> Undefined,
                      edgeColor |-> Undefined, edgeWidth |-> Undefined]
        ins1 == [insts EXCEPT ![i] = ClippingPlanesCollection(i, noOptions, own)]
        h == clone(self, i, ins1, [arrays EXCEPT ![own] = << >>],
                   [matrices EXCEPT ![i] = IDENTITY],
                   [colors EXCEPT ![i] = WHITE])
    IN  /\ self \in Alive /\ i \in InstIds
        /\ insts' = h.insts /\ arrays' = h.arrays
        /\ matrices' = h.matrices /\ colors' = h.colors
        /\ outcome' = [NoOutcome EXCEPT !.op = "clone", !.self = self,
                                        !.result = i]
        /\ UNCHANGED <<planeObjs, edits>>

\* The arrays and matrices the caller can reach: those it made, and the
\* planes and modelMatrix fields of every instance.
ReachableArrays == ArgArrays \cup HeldArrays(insts)
ReachableMatrices == ArgMatrices \cup {insts[i].modelMatrix : i \in Alive}

\* The caller adds a plane to an array: a.push(p).
ArrayPush(a, p) ==
    /\ edits < MaxEdits /\ a \in ReachableArrays /\ Len(arrays[a]) < MaxLen
    /\ arrays' = [arrays EXCEPT ![a] = Append(@, p)]
    /\ edits' = edits + 1
    /\ outcome' = [NoOutcome EXCEPT !.op = "arrayWrite", !.object = a]
    /\ UNCHANGED <<planeObjs, matrices, colors, insts>>

\* The caller removes the last plane of an array: a.pop().
ArrayPop(a) ==
    /\ edits < MaxEdits /\ a \in ReachableArrays /\ Len(arrays[a]) > 0
    /\ arrays' = [arrays EXCEPT ![a] = SubSeq(@, 1, Len(@) - 1)]
    /\ edits' = edits + 1
    /\ outcome' = [NoOutcome EXCEPT !.op = "arrayWrite", !.object = a]
    /\ UNCHANGED <<planeObjs, matrices, colors, insts>>

\* The caller replaces a plane of an array: a[k] = p.
ArrayReplace(a, k, p) ==
    /\ edits < MaxEdits /\ a \in ReachableArrays
    /\ k \in DOMAIN arrays[a] /\ arrays[a][k] # p
    /\ arrays' = [arrays EXCEPT ![a][k] = p]
    /\ edits' = edits + 1
    /\ outcome' = [NoOutcome EXCEPT !.op = "arrayWrite", !.object = a]
    /\ UNCHANGED <<planeObjs, matrices, colors, insts>>

\* The caller writes a matrix in place (Matrix4.clone(v, m) and the like).
MatrixWrite(m, v) ==
    /\ edits < MaxEdits /\ m \in ReachableMatrices /\ matrices[m] # v
    /\ matrices' = [matrices EXCEPT ![m] = v]
    /\ edits' = edits + 1
    /\ outcome' = [NoOutcome EXCEPT !.op = "matrixWrite", !.object = m]
    /\ UNCHANGED <<planeObjs, arrays, colors, insts>>

\* The caller writes the normal and distance of a Plane object.
PlaneWrite(p, v) ==
    /\ edits < MaxEdits /\ planeObjs[p] # v
    /\ planeObjs' = [planeObjs EXCEPT ![p] = v]
    /\ edits' = edits + 1
    /\ outcome' = [NoOutcome EXCEPT !.op = "planeWrite", !.object = p]
    /\ UNCHANGED <<arrays, matrices, colors, insts>>

\* collection.computeIntersectionWithBoundingVolume(boundingVolume, parentTransform)
Classify(i, boundingVolume, parentTransform) ==
    /\ i \in Alive
    /\ outcome' = [NoOutcome EXCEPT
            !.op = "classify", !.self = i,
            !.boundingVolume = boundingVolume, !.transform = parentTransform,
            !.value = computeIntersectionWithBoundingVolume(
                          insts[i], boundingVolume, parentTransform)]
    /\ UNCHANGED <<planeObjs, arrays, matrices, colors, insts, edits>>

\* The output container a caller supplies: MaxLen records, zeroed.
Container == [k \in 1..MaxLen |-> Defined([x |-> 0, w |-> 0])]

\* collection.transformAndPackPlanes(viewMatrix, array)
TransformAndPack(i, viewMatrix, array) ==
    /\ i \in Alive
    /\ LET r == transformAndPackPlanes(insts[i], viewMatrix, array)
       IN  outcome' = [NoOutcome EXCEPT
               !.op = "pack", !.self = i, !.supplied = defined(array),
               !.transform = Defined(viewMatrix),
               !.threw = r.threw, !.array = r.array]
    /\ UNCHANGED <<planeObjs, arrays, matrices, colors, insts, edits>>

\* ---------------------------------------------------------- specifications

\* The caller's objects as it made them; no instance yet.
Init ==
    /\ planeObjs = InitialPlanes
    /\ arrays = [a \in ArrayIds |-> IF a \in ArgArrays THEN <<1, 2>> ELSE << >>]
    /\ matrices = [m \in MatrixIds |->
                      IF m \in ArgMatrices THEN [s |-> 1, t |-> 2] ELSE IDENTITY]
    /\ colors = [c \in ColorIds |-> IF c \in ArgColors THEN RED ELSE WHITE]
    /\ insts = [i \in InstIds |-> NoInstance]
    /\ edits = 0
    /\ outcome = NoOutcome

NextLifecycle ==
    \/ \E options \in CtorOptions : New(options)
    \/ \E i \in InstIds, value \in BOOLEAN : SetCombineClippingRegions(i, value)
    \/ \E self \in InstIds, target \in InstIds : CloneInto(self, target)
    \/ \E self \in InstIds : CloneNew(self)

\* Construction, assignments to the flag, and clone.
SpecLifecycle == Init /\ [][NextLifecycle]_vars

Next ==
    \/ \E options \in CtorOptions : New(options)
    \/ \E i \in InstIds, value \in BOOLEAN : SetCombineClippingRegions(i, value)
    \/ \E self \in InstIds, target \in InstIds : CloneInto(self, target)
    \/ \E self \in InstIds : CloneNew(self)
    \/ \E a \in ArrayIds, p \in PlaneIds : ArrayPush(a, p)
    \/ \E a \in ArrayIds : ArrayPop(a)
    \/ \E a \in ArrayIds, k \in 1..MaxLen, p \in PlaneIds : ArrayReplace(a, k, p)
    \/ \E m \in MatrixIds, v \in MatrixValues : MatrixWrite(m, v)
    \/ \E p \in PlaneIds, v \in PlaneValues : PlaneWrite(p, v)

\* The same, and the caller's writes to the objects it can reach.
Spec == Init /\ [][Next]_vars

\* Sequences of Plane objects of length at most MaxLen.
RECURSIVE PlaneSeqs(_)
PlaneSeqs(n) ==
    IF n = 0 THEN {<< >>}
    ELSE PlaneSeqs(n - 1) \cup
         {Append(q, p) : q \in {x \in PlaneSeqs(n - 1) : Len(x) = n - 1},
                         p \in PlaneIds}

\* One instance, constructed on planes and a modelMatrix drawn from the
\* bounded sets, with the flag given or defaulted.
InitClassify ==
    /\ planeObjs = InitialPlanes
    /\ \E P \in PlaneSeqs(MaxLen), M \in MatrixValues :
        /\ arrays = [a \in ArrayIds |-> IF a \in ArgArrays THEN P ELSE << >>]
        /\ matrices = [m \in MatrixIds |-> IF m \in ArgMatrices THEN M ELSE IDENTITY]
    /\ colors = [c \in ColorIds |-> IF c \in ArgColors THEN RED ELSE WHITE]
    /\ \E options \in CtorOptions :
        /\ defined(options.planes) /\ defined(options.modelMatrix)
        /\ ~defined(options.enabled)
        /\ insts = [i \in InstIds |->
                       IF i = 1 THEN ClippingPlanesCollection(1, options, 1)
                       ELSE NoInstance]
    /\ edits = 0
    /\ outcome = [NoOutcome EXCEPT !.op = "new", !.result = 1]

ParentTransforms == {Undefined} \cup {Defined(m) : m \in MatrixValues}

NextClassify ==
    \/ \E i \in InstIds, value \in BOOLEAN : SetCombineClippingRegions(i, value)
    \/ \E i \in InstIds, bv \in BoundingVolumes, parent \in ParentTransforms :
           Classify(i, bv, parent)
    \/ \E i \in InstIds, view \in MatrixValues,
          array \in {Undefined, Defined(Container)} :
           TransformAndPack(i, view, array)

\* Classification and packing of one instance on drawn inputs.
SpecClassify == InitClassify /\ [][NextClassify]_vars

\* ------------------------------------------------------------ properties

\* The instance the last call was made on, its planes, and what each
\* plane reports for the volume of the last classification.
Self == insts[outcome.self]
Flag == get_combineClippingRegions(Self)
Classified == outcome.op = "classify"
EffectiveTransform ==
    IF defined(outcome.transform)
    THEN Matrix4_multiply(matrices[Self.modelMatrix], Val(outcome.transform))
    ELSE matrices[Self.modelMatrix]
Verdicts ==
    [k \in DOMAIN PlanesOf(Self) |->
        intersectPlane(outcome.boundingVolume,
                       Plane_transform(PlanesOf(Self)[k], EffectiveTransform))]
Reports(v) == \E k \in DOMAIN Verdicts : Verdicts[k] = v

\* The last call classified against the two planes of the slab, in either
\* order, in combine mode and with identity transforms.
SlabCase ==
    /\ Classified /\ Flag
    /\ arrays[Self.planes] \in {<<1, 2>>, <<2, 1>>}
    /\ matrices[Self.modelMatrix] = IDENTITY
    /\ outcome.transform \in {Undefined, Defined(IDENTITY)}
SlabInside == Verdicts[1] = INSIDE /\ Verdicts[2] = INSIDE
SlabOutside == {Verdicts[1], Verdicts[2]} = {OUTSIDE, INSIDE}
SlabStraddling == {Verdicts[1], Verdicts[2]} = {INTERSECTING, INSIDE}

\* C1 as stated: on the slab in combine mode the result is Inside when
\* both planes report Inside, Outside when one reports Outside and the
\* other Inside, Intersecting when one reports Intersecting and the other
\* Inside.
C1_SlabAsStated ==
    SlabCase =>
        /\ SlabInside => outcome.value = INSIDE
        /\ SlabOutside => outcome.value = OUTSIDE
        /\ SlabStraddling => outcome.value = INTERSECTING

\* C1 amended: on the slab in combine mode the result is Inside in all
\* three cases, in either plane order: one plane reports Inside in each.
C1_SlabInside ==
    SlabCase /\ (SlabInside \/ SlabOutside \/ SlabStraddling)
        => outcome.value = INSIDE

C1_Witness ==
    /\ SlabCase /\ SlabStraddling /\ Verdicts[1] = INTERSECTING
    /\ outcome.value = INSIDE

\* C2: in union mode, a plane reporting Outside makes the result Outside,
\* wherever it sits and whatever the others report.
C2_UnionOutside ==
    Classified /\ ~Flag /\ Reports(OUTSIDE) => outcome.value = OUTSIDE

C2_Witness ==
    /\ Classified /\ ~Flag /\ Len(Verdicts) = MaxLen
    /\ Verdicts[1] = INTERSECTING /\ Verdicts[2] = INSIDE
    /\ Verdicts[MaxLen] = OUTSIDE /\ outcome.value = OUTSIDE

\* C3: with no planes the result is Inside, for both values of the flag
\* and with or without a parentTransform.
C3_NoPlanesInside ==
    Classified /\ Len(PlanesOf(Self)) = 0 => outcome.value = INSIDE

C3_Witness ==
    /\ Classified /\ Len(PlanesOf(Self)) = 0 /\ Flag
    /\ defined(outcome.transform) /\ outcome.value = INSIDE

\* A sequence in the order a permutation of its indices gives.
Permuted(seq, f) == [k \in DOMAIN seq |-> seq[f[k]]]

\* C5: the result is the same for every permutation of the planes.
C5_OrderIndependent ==
    Classified =>
        \A f \in Permutations(DOMAIN PlanesOf(Self)) :
            classify(Permuted(PlanesOf(Self), f), matrices[Self.modelMatrix],
                     Flag, Val(Self._testIntersection),
                     outcome.boundingVolume, outcome.transform)
                = outcome.value

\* The first plane is not decisive and a later one is: the order decides
\* how many planes are examined.
C5_Witness ==
    /\ Classified /\ Len(Verdicts) >= 2
    /\ Verdicts[1] = INTERSECTING
    /\ \E k \in DOMAIN Verdicts : k > 1 /\ Val(Self._testIntersection)[Verdicts[k]]

\* The reference function of C10 on the verdicts of the planes.
Reference(combineClippingRegions) ==
    IF combineClippingRegions
    THEN IF Reports(INSIDE) THEN INSIDE
         ELSE IF Reports(INTERSECTING) THEN INTERSECTING
         ELSE OUTSIDE
    ELSE IF Reports(OUTSIDE) THEN OUTSIDE
         ELSE IF Reports(INTERSECTING) THEN INTERSECTING
         ELSE INSIDE

\* C10: for a non-empty set the result is the reference function of the
\* per-plane verdicts.
C10_Reference ==
    Classified /\ Len(PlanesOf(Self)) > 0 => outcome.value = Reference(Flag)

C10_Witness ==
    /\ Classified /\ Flag /\ Reports(OUTSIDE) /\ Reports(INTERSECTING)
    /\ ~Reports(INSIDE) /\ outcome.value = INTERSECTING

\* C6: transformAndPackPlanes without an output container completes and
\* returns one record per plane, holding the transformed normal and
\* distance.
C6_PackAllocates ==
    outcome.op = "pack" /\ ~outcome.supplied =>
        /\ ~outcome.threw
        /\ Len(outcome.array) = Len(PlanesOf(Self))
        /\ \A k \in DOMAIN PlanesOf(Self) :
            LET plane == Plane_transform(
                    PlanesOf(Self)[k],
                    Matrix4_multiply(Val(outcome.transform),
                                     matrices[Self.modelMatrix]))
            IN  outcome.array[k] =
                    Defined([x |-> plane.normal, w |-> plane.distance])

\* C4: the cached predicate of every instance accepts exactly INSIDE when
\* its flag is true and exactly OUTSIDE when it is false.
C4_PredicateMatchesFlag ==
    \A i \in Alive :
        /\ defined(insts[i]._testIntersection)
        /\ \A v \in Intersect :
            Val(insts[i]._testIntersection)[v] <=>
                v = (IF get_combineClippingRegions(insts[i]) THEN INSIDE ELSE OUTSIDE)

\* An assignment changed the flag from true to false.
C4_Witness ==
    /\ outcome.op = "setCombine" /\ outcome.before = Defined(TRUE)
    /\ ~Flag /\ Val(Self._testIntersection)[OUTSIDE]

\* C7: a write by the caller to the array or the matrix it passed to a
\* constructor changes the planes and the modelMatrix of no instance.
C7_ConstructorCopies ==
    [][(\/ outcome'.op = "arrayWrite" /\ outcome'.object \in ArgArrays
        \/ outcome'.op = "matrixWrite" /\ outcome'.object \in ArgMatrices)
       => \A i \in Alive :
            /\ arrays'[insts'[i].planes] = arrays[insts[i].planes]
            /\ matrices'[insts'[i].modelMatrix] = matrices[insts[i].modelMatrix]]_vars

\* The Plane objects an instance holds.
PlaneObjectsOf(self) == {arrays[self.planes][k] : k \in DOMAIN arrays[self.planes]}

\* C8: the result of clone, on another instance than the original, has
\* fields equal to the original's, and its planes array and modelMatrix
\* are other objects than the original's.
C8_CloneIndependent ==
    outcome.op = "clone" /\ outcome.result # outcome.self =>
        LET original == insts[outcome.self]
            result == insts[outcome.result]
        IN  /\ arrays[result.planes] = arrays[original.planes]
            /\ result.enabled = original.enabled
            /\ matrices[result.modelMatrix] = matrices[original.modelMatrix]
            /\ get_combineClippingRegions(result) = get_combineClippingRegions(original)
            /\ colors[result.edgeColor] = colors[original.edgeColor]
            /\ result.edgeWidth = original.edgeWidth
            /\ result.planes # original.planes
            /\ result.modelMatrix # original.modelMatrix

\* C9: after clone no Plane object is held by both the original and the
\* clone.
C9_PlanesCopied ==
    outcome.op = "clone" /\ outcome.result # outcome.self =>
        PlaneObjectsOf(insts[outcome.result])
            \cap PlaneObjectsOf(insts[outcome.self]) = {}

====
